---- MODULE Spec2Model ----
(***************************************************************************)
(* Business registration / review service: the handlers of handlers.rs    *)
(* over the transactional persistence gateway of database.rs.             *)
(*                                                                         *)
(* The relational store is modelled at READ COMMITTED: every table is a    *)
(* function from the ids of its committed rows to the rows; a transaction  *)
(* keeps its uncommitted writes in tx[p] and publishes them in one step    *)
(* at commit; a row with an uncommitted write is locked, and a statement   *)
(* of another transaction that has to write that row waits.                *)
(* Each request worker p runs one handler at a time, one step per database *)
(* round trip (every .await of the handler).                               *)
(***************************************************************************)
EXTENDS Integers, Sequences, FiniteSets, TLC

VARIABLES
    registrations,      \* business_registration_requests, committed rows
    review_events,      \* business_review_events, committed rows
    locations,          \* business_locations, committed rows
    promotions,         \* business_promotions, committed rows
    promotion_locations,\* business_promotion_locations, committed <<promotion, location>> rows
    business_units,     \* business_units, committed rows
    pc,                 \* position of each worker inside its handler
    req,                \* the handler's local variables
    tx,                 \* the open transaction's uncommitted writes
    resp,               \* the response the latest step sent, if any
    seq                 \* allocation counters (fresh ids, creation order)

vars == <<registrations, review_events, locations, promotions, promotion_locations,
          business_units,
          pc, req, tx, resp, seq>>

---------------------------------------------------------------------------
\* Bounds of the model
MaxRegs == 1
MaxReviews == 2
MaxLocs == 3

Procs == {"w1", "w2"}
Users == {"u1"}

\* Option<T>: None is the empty tuple, Some(x) the one-element tuple
None == <<>>
Some(x) == <<x>>
Unwrap(o) == o[1]

Statuses == {"Pending", "UnderReview", "Approved", "Rejected", "Suspended"}
ReviewActions == {"Approve", "Reject", "RequestMoreInfo", "Suspend", "Resume", "Comment"}

\* Request payload values. Names are character sequences so that trim() is computed.
Whitespace == {" "}
NameInputs == {None, Some(<<>>), Some(<<" ">>), Some(<<"A">>)}
ReviewerInputs ==
    {[reviewer_id |-> Some("rev1"), reviewer_name |-> n] : n \in NameInputs}
        \cup {[reviewer_id |-> None, reviewer_name |-> Some(<<"A">>)]}
PayloadInputs ==
    {[notes |-> None, rejection_reason |-> None],
     [notes |-> Some("n1"), rejection_reason |-> None],
     [notes |-> None, rejection_reason |-> Some("r1")]}

RECURSIVE TrimStart(_)
TrimStart(s) ==
    IF s = <<>> THEN s
    ELSE IF Head(s) \in Whitespace THEN TrimStart(Tail(s)) ELSE s

RECURSIVE TrimEnd(_)
TrimEnd(s) ==
    IF s = <<>> THEN s
    ELSE IF s[Len(s)] \in Whitespace THEN TrimEnd(SubSeq(s, 1, Len(s) - 1)) ELSE s

Trim(s) == TrimEnd(TrimStart(s))

---------------------------------------------------------------------------
\* Responses
Ok200 == [code |-> 200, msg |-> "ok"]
Created201 == [code |-> 201, msg |-> "created"]
NoResp == [code |-> 0, msg |-> "none"]
RegistrationNotFound == [code |-> 404, msg |-> "Registration not found"]
RejectionReasonRequired ==
    [code |-> 400, msg |-> "Rejection reason is required when rejecting a registration"]
ReviewerRequired == [code |-> 400, msg |-> "Reviewer identity is required"]
FailedToRecord == [code |-> 500, msg |-> "Failed to record review event"]
FailedToCreateRegistration == [code |-> 500, msg |-> "Failed to create registration"]

NoReq == [op |-> "none"]
NoTx == [regs |-> <<>>, events |-> {}, locs |-> <<>>,
         promos |-> <<>>, join_del |-> {}, join_add |-> {}, units |-> <<>>]

\* Rows of a table f written over by the uncommitted rows g
Overlay(f, g) == [k \in DOMAIN f \cup DOMAIN g |-> IF k \in DOMAIN g THEN g[k] ELSE f[k]]

\* A row is locked for worker p when another open transaction has written it
LockedRegistration(p, r) == \E q \in Procs \ {p} : r \in DOMAIN tx[q].regs
LockedLocation(p, l) == \E q \in Procs \ {p} : l \in DOMAIN tx[q].locs

\* What a statement of p's transaction sees: committed rows and its own writes
VisibleLocations(p) == Overlay(locations, tx[p].locs)

Respond(p, r) ==
    /\ resp' = r
    /\ pc' = [pc EXCEPT ![p] = "idle"]
    /\ req' = [req EXCEPT ![p] = NoReq]

\* The handler goes on to its next step without answering yet
Goto(p, label) ==
    /\ pc' = [pc EXCEPT ![p] = label]
    /\ resp' = NoResp

---------------------------------------------------------------------------
\* Initial state: the schema exists and every table is empty
Init ==
    /\ registrations = <<>>
    /\ review_events = {}
    /\ locations = <<>>
    /\ promotions = <<>>
    /\ promotion_locations = {}
    /\ business_units = <<>>
    /\ pc = [p \in Procs |-> "idle"]
    /\ req = [p \in Procs |-> NoReq]
    /\ tx = [p \in Procs |-> NoTx]
    /\ resp = NoResp
    /\ seq = [regs |-> 0, events |-> 0, locs |-> 0, promos |-> 0, units |-> 0]

---------------------------------------------------------------------------
\* A commit that loses the transaction's ReviewEvent rows
CommitWritesWithoutEvents(p) ==
    /\ registrations' = Overlay(registrations, tx[p].regs)
    /\ locations' = Overlay(locations, tx[p].locs)
    /\ promotions' = Overlay(promotions, tx[p].promos)
    /\ promotion_locations' = (promotion_locations \ tx[p].join_del) \cup tx[p].join_add
    /\ business_units' = Overlay(business_units, tx[p].units)
    /\ tx' = [tx EXCEPT ![p] = NoTx]
    /\ UNCHANGED review_events

\* A commit after which only the transaction's own ReviewEvent rows are left
CommitWritesReplacingEvents(p) ==
    /\ registrations' = Overlay(registrations, tx[p].regs)
    /\ review_events' = IF tx[p].events # {} THEN tx[p].events ELSE review_events
    /\ locations' = Overlay(locations, tx[p].locs)
    /\ promotions' = Overlay(promotions, tx[p].promos)
    /\ promotion_locations' = (promotion_locations \ tx[p].join_del) \cup tx[p].join_add
    /\ business_units' = Overlay(business_units, tx[p].units)
    /\ tx' = [tx EXCEPT ![p] = NoTx]

\* tx.commit(): the transaction's writes become visible together
CommitWrites(p) ==
    /\ registrations' = Overlay(registrations, tx[p].regs)
    /\ review_events' = review_events \cup tx[p].events
    /\ locations' = Overlay(locations, tx[p].locs)
    /\ promotions' = Overlay(promotions, tx[p].promos)
    /\ promotion_locations' = (promotion_locations \ tx[p].join_del) \cup tx[p].join_add
    /\ business_units' = Overlay(business_units, tx[p].units)
    /\ tx' = [tx EXCEPT ![p] = NoTx]

\* A failure that keeps the ReviewEvent rows inserted so far, as if the INSERT
\* had run outside the transaction
RollbackKeepsEvents(p) ==
    /\ review_events' = review_events \cup tx[p].events
    /\ tx' = [tx EXCEPT ![p] = NoTx]
    /\ UNCHANGED <<registrations, locations, promotions, promotion_locations, business_units>>

\* The transaction is dropped without commit: none of its writes is kept
Rollback(p) ==
    /\ tx' = [tx EXCEPT ![p] = NoTx]
    /\ UNCHANGED <<registrations, review_events, locations, promotions, promotion_locations, business_units>>

---------------------------------------------------------------------------
\* POST /registrations

\* The registration row built from the payload
NewRegistration(id, u) ==
    [id |-> id, user_id |-> u, profile |-> "submitted", status |-> "Pending",
     rejection_reason |-> None, reviewer_notes |-> None,
     reviewer_id |-> None, reviewer_name |-> None, applied |-> {}]

\* The locations built from the payload: the first one is the primary
NewLocations(reg, n, first) ==
    [i \in 1..n |-> [id |-> first + i, registration_id |-> reg, label |-> "a",
                     is_primary |-> (i = 1), created_at |-> first + i]]

\* The handler with a payload that passes validate(), up to create_registration
submit_registration(p, u, n) ==
    /\ pc[p] = "idle"
    /\ seq.regs < MaxRegs
    /\ seq.locs + n <= MaxLocs
    /\ req' = [req EXCEPT ![p] =
            [op |-> "submit_registration",
             registration |-> NewRegistration(seq.regs + 1, u),
             locations |-> NewLocations(seq.regs + 1, n, seq.locs)]]
    /\ seq' = [seq EXCEPT !.regs = @ + 1, !.locs = @ + n]
    /\ Goto(p, "cr_insert_reg")
    /\ UNCHANGED <<registrations, review_events, locations, promotions, promotion_locations, business_units, tx>>

\* INSERT INTO business_registration_requests, inside the transaction
create_registration_insert(p) ==
    /\ pc[p] = "cr_insert_reg"
    /\ tx' = [tx EXCEPT ![p].regs = (req[p].registration.id :> req[p].registration)]
    /\ Goto(p, IF req[p].locations = <<>> THEN "cr_commit" ELSE "cr_insert_loc")
    /\ UNCHANGED <<registrations, review_events, locations, promotions, promotion_locations, business_units, req, seq>>

\* insert_location_with_tx as one statement pair: clear the primaries the
\* transaction sees for the registration, then insert the row
InsertLocationWrites(p, loc) ==
    LET seen == VisibleLocations(p)
        cleared == IF loc.is_primary
                   THEN [l \in {k \in DOMAIN seen : seen[k].registration_id = loc.registration_id}
                            |-> [seen[l] EXCEPT !.is_primary = FALSE]]
                   ELSE <<>>
    IN  Overlay(Overlay(tx[p].locs, cleared), (loc.id :> loc))

create_registration_insert_location(p) ==
    /\ pc[p] = "cr_insert_loc"
    /\ tx' = [tx EXCEPT ![p].locs = InsertLocationWrites(p, Head(req[p].locations))]
    /\ req' = [req EXCEPT ![p].locations = Tail(@)]
    /\ Goto(p, IF Tail(req[p].locations) = <<>> THEN "cr_commit" ELSE "cr_insert_loc")
    /\ UNCHANGED <<registrations, review_events, locations, promotions, promotion_locations, business_units, seq>>

create_registration_commit(p) ==
    /\ pc[p] = "cr_commit"
    /\ CommitWrites(p)
    /\ Respond(p, Created201)
    /\ UNCHANGED seq

\* create_registration without a transaction: each statement on the pool, so
\* what ran before the failing statement stays
create_registration_fail_autocommit(p) ==
    /\ pc[p] \in {"cr_insert_reg", "cr_insert_loc", "cr_commit"}
    /\ CommitWrites(p)
    /\ Respond(p, FailedToCreateRegistration)
    /\ UNCHANGED seq

\* Any statement of create_registration returns Err: the transaction is dropped
create_registration_fail(p) ==
    /\ pc[p] \in {"cr_insert_reg", "cr_insert_loc", "cr_commit"}
    /\ Rollback(p)
    /\ Respond(p, FailedToCreateRegistration)
    /\ UNCHANGED seq

---------------------------------------------------------------------------
\* get_or_create_auto_registration, called by POST /companies/{id}/units

ApprovedRegistrationsOf(u) ==
    {r \in DOMAIN registrations :
        registrations[r].user_id = u /\ registrations[r].status = "Approved"}

AutoRegistration(id, u) ==
    [id |-> id, user_id |-> u, profile |-> "auto", status |-> "Approved",
     rejection_reason |-> None, reviewer_notes |-> None,
     reviewer_id |-> None, reviewer_name |-> None, applied |-> {}]

auto_registration_lookup(p, u) ==
    /\ pc[p] = "idle"
    /\ IF ApprovedRegistrationsOf(u) # {}
       THEN /\ resp' = NoResp
            /\ UNCHANGED <<registrations, review_events, locations, promotions, promotion_locations, business_units, pc, req, tx, seq>>
       ELSE /\ seq.regs < MaxRegs
            /\ req' = [req EXCEPT ![p] = [op |-> "auto_registration",
                                         registration |-> AutoRegistration(seq.regs + 1, u)]]
            /\ seq' = [seq EXCEPT !.regs = @ + 1]
            /\ Goto(p, "ar_insert")
            /\ UNCHANGED <<registrations, review_events, locations, promotions, promotion_locations, business_units, tx>>

auto_registration_insert(p) ==
    /\ pc[p] = "ar_insert"
    /\ registrations' = Overlay(registrations, (req[p].registration.id :> req[p].registration))
    /\ pc' = [pc EXCEPT ![p] = "idle"]
    /\ req' = [req EXCEPT ![p] = NoReq]
    /\ resp' = NoResp
    /\ UNCHANGED <<review_events, locations, promotions, promotion_locations, business_units, tx, seq>>

---------------------------------------------------------------------------
\* POST /reviews/{registration_id}/action

\* A handler without the rejection-reason check
RejectReasonNotChecked(action, rejection_reason) == FALSE

\* matches!(action, ReviewAction::Reject) && rejection_reason.is_none()
RejectWithoutReason(action, rejection_reason) ==
    action = "Reject" /\ rejection_reason = None

\* A reviewer check that does not trim the name
ReviewerMissingUntrimmed(reviewer_id, reviewer_name) ==
    \/ reviewer_id = None
    \/ IF reviewer_name = None THEN TRUE ELSE Unwrap(reviewer_name) = <<>>

\* reviewer_id.is_none() || reviewer_name.map(|s| s.trim().is_empty()).unwrap_or(true)
ReviewerMissing(reviewer_id, reviewer_name) ==
    \/ reviewer_id = None
    \/ IF reviewer_name = None THEN TRUE ELSE Trim(Unwrap(reviewer_name)) = <<>>

\* A mapping in which Resume approves
NewStatusResumeApproves(action, existing_status) ==
    CASE action = "Approve" -> "Approved"
      [] action = "Reject" -> "Rejected"
      [] action = "RequestMoreInfo" -> "UnderReview"
      [] action = "Suspend" -> "Suspended"
      [] action = "Resume" -> "Approved"
      [] action = "Comment" -> existing_status

\* let new_status = match action { ... }
NewStatus(action, existing_status) ==
    CASE action = "Approve" -> "Approved"
      [] action = "Reject" -> "Rejected"
      [] action = "RequestMoreInfo" -> "UnderReview"
      [] action = "Suspend" -> "Suspended"
      [] action = "Resume" -> "UnderReview"
      [] action = "Comment" -> existing_status

\* An assignment without COALESCE: the column takes the parameter even when it is NULL
CoalesceOverwrites(new, old) == new

\* COALESCE($n, column)
Coalesce(new, old) == IF new # None THEN new ELSE old

\* A lookup that answers with a blank Pending row when the registration is missing
get_registration_or_default(r) ==
    IF r \in DOMAIN registrations THEN Some(registrations[r])
    ELSE Some([id |-> r, user_id |-> "u1", profile |-> "submitted", status |-> "Pending",
               rejection_reason |-> None, reviewer_notes |-> None,
               reviewer_id |-> None, reviewer_name |-> None, applied |-> {}])

\* get_registration_by_id: SELECT ... WHERE id = $1, fetch_optional
get_registration_by_id(r) ==
    IF r \in DOMAIN registrations THEN Some(registrations[r]) ELSE None

\* The handler up to the call of record_review_event: fetch, validate, map
submit_review_action(p, r, action, notes, rejection_reason, reviewer_id, reviewer_name) ==
    /\ pc[p] = "idle"
    /\ seq.events < MaxReviews
    /\ IF get_registration_by_id(r) = None
       THEN /\ Respond(p, RegistrationNotFound)
            /\ UNCHANGED <<registrations, review_events, locations, promotions, promotion_locations, business_units, tx, seq>>
       ELSE IF RejectWithoutReason(action, rejection_reason)
       THEN /\ Respond(p, RejectionReasonRequired)
            /\ UNCHANGED <<registrations, review_events, locations, promotions, promotion_locations, business_units, tx, seq>>
       ELSE IF ReviewerMissing(reviewer_id, reviewer_name)
       THEN /\ Respond(p, ReviewerRequired)
            /\ UNCHANGED <<registrations, review_events, locations, promotions, promotion_locations, business_units, tx, seq>>
       ELSE /\ req' = [req EXCEPT ![p] =
                    [op |-> "submit_review_action",
                     registration_id |-> r,
                     event_id |-> seq.events + 1,
                     action |-> action,
                     notes |-> notes,
                     rejection_reason |-> rejection_reason,
                     reviewer_id |-> reviewer_id,
                     reviewer_name |-> reviewer_name,
                     new_status |-> NewStatus(action, Unwrap(get_registration_by_id(r)).status)]]
            /\ seq' = [seq EXCEPT !.events = @ + 1]
            /\ Goto(p, "rr_write")
            /\ UNCHANGED <<registrations, review_events, locations, promotions, promotion_locations, business_units, tx>>

\* The ReviewEvent row of the request
ReviewEventRow(q) ==
    [id |-> q.event_id, registration_id |-> q.registration_id,
     reviewer_id |-> q.reviewer_id, reviewer_name |-> q.reviewer_name,
     action |-> q.action, notes |-> q.notes,
     rejection_reason |-> q.rejection_reason, created_at |-> q.event_id]

\* The row the UPDATE writes; applied records which request's UPDATE the row has taken
UpdatedRegistration(row, q) ==
    [row EXCEPT !.status = q.new_status,
                !.rejection_reason = q.rejection_reason,
                !.reviewer_notes = Coalesce(q.notes, @),
                !.reviewer_id = Coalesce(q.reviewer_id, @),
                !.reviewer_name = Coalesce(q.reviewer_name, @),
                !.applied = @ \cup {q.event_id}]

\* What the two statements of record_review_event leave in the transaction:
\* INSERT INTO business_review_events, UPDATE business_registration_requests
ReviewWrites(p, row) ==
    [tx[p] EXCEPT !.events = {ReviewEventRow(req[p])},
                  !.regs = (req[p].registration_id :> UpdatedRegistration(row, req[p]))]

\* record_review_event: begin, INSERT, UPDATE ... RETURNING (fetch_one). The
\* UPDATE waits for the row's lock and then works on the row as committed.
record_review_event_write(p) ==
    LET r == req[p].registration_id IN
    /\ pc[p] = "rr_write"
    /\ ~LockedRegistration(p, r)
    /\ IF r \in DOMAIN registrations
       THEN /\ tx' = [tx EXCEPT ![p] = ReviewWrites(p, registrations[r])]
            /\ Goto(p, "rr_commit")
            /\ UNCHANGED <<registrations, review_events, locations, promotions, promotion_locations, business_units, req, seq>>
       ELSE /\ Rollback(p)
            /\ Respond(p, FailedToRecord)
            /\ UNCHANGED seq

\* record_review_event: tx.commit(), then the handler answers with the details
record_review_event_commit(p) ==
    /\ pc[p] = "rr_commit"
    /\ CommitWrites(p)
    /\ Respond(p, Ok200)
    /\ UNCHANGED seq

\* Any statement of record_review_event returns Err: the transaction is dropped
record_review_event_fail(p) ==
    /\ pc[p] \in {"rr_write", "rr_commit"}
    /\ Rollback(p)
    /\ Respond(p, FailedToRecord)
    /\ UNCHANGED seq

---------------------------------------------------------------------------
\* Number of locations a registration payload carries in this model
InitialLocationCounts == {1}

RegistrationActions(p) ==
    \/ \E u \in Users, n \in InitialLocationCounts : submit_registration(p, u, n)
    \/ create_registration_insert(p)
    \/ create_registration_insert_location(p)
    \/ create_registration_commit(p)
    \/ create_registration_fail(p)
    \/ \E u \in Users : auto_registration_lookup(p, u)
    \/ auto_registration_insert(p)

ReviewActionsOf(p) ==
    \/ \E r \in 1..MaxRegs, action \in ReviewActions, b \in PayloadInputs,
          who \in ReviewerInputs :
            submit_review_action(p, r, action, b.notes, b.rejection_reason,
                                 who.reviewer_id, who.reviewer_name)
    \/ record_review_event_write(p)
    \/ record_review_event_commit(p)
    \/ record_review_event_fail(p)

\* The review workflow: registrations are created and reviewed concurrently
Next == \E p \in Procs : RegistrationActions(p) \/ ReviewActionsOf(p)

Spec == Init /\ [][Next]_vars

---------------------------------------------------------------------------
\* The history of a registration, as build_registration_details returns it

\* ORDER BY created_at DESC
RECURSIVE OrderByCreatedAtDesc(_)
OrderByCreatedAtDesc(rows) ==
    IF rows = {} THEN <<>>
    ELSE LET first == CHOOSE x \in rows : \A y \in rows : x.created_at >= y.created_at
         IN  <<first>> \o OrderByCreatedAtDesc(rows \ {first})

\* list_review_events: SELECT ... WHERE registration_id = $1 ORDER BY created_at DESC
list_review_events(r) ==
    OrderByCreatedAtDesc({e \in review_events : e.registration_id = r})

---------------------------------------------------------------------------
\* Locations of a registration: POST, PUT, DELETE /registrations/{id}/locations

LocationNotFound == [code |-> 404, msg |-> "Location not found"]
LastLocationRequired == [code |-> 400, msg |-> "At least one location is required"]
FailedToCreateLocation == [code |-> 500, msg |-> "Failed to create location"]
FailedToUpdateLocation == [code |-> 500, msg |-> "Failed to update location"]
FailedToDeleteLocation == [code |-> 500, msg |-> "Failed to delete location"]
FailedToPromote == [code |-> 500, msg |-> "Failed to promote new primary location"]

\* The rows list_locations_for_registration returns, as a set
LocationsOf(r) == {l \in DOMAIN locations : locations[l].registration_id = r}

\* ORDER BY is_primary DESC, created_at ASC
ListedBefore(a, b) ==
    \/ a.is_primary /\ ~b.is_primary
    \/ a.is_primary = b.is_primary /\ a.created_at <= b.created_at

\* remaining.first() of a non-empty listing
FirstListed(ids) ==
    CHOOSE l \in ids : \A m \in ids : ListedBefore(locations[l], locations[m])

\* The location built from the payload; the first location of a registration
\* is made primary whatever the payload says
into_new_location(id, r, is_primary, force_primary) ==
    [id |-> id, registration_id |-> r, label |-> "a",
     is_primary |-> (is_primary \/ force_primary), created_at |-> id]

\* The rows an UPDATE ... SET is_primary = FALSE WHERE registration_id = r
\* AND id <> except finds in its statement snapshot
ClearTargets(p, r, except) ==
    {l \in DOMAIN VisibleLocations(p) :
        VisibleLocations(p)[l].registration_id = r /\ l # except}

\* The statement's writes: each target that still exists, in its latest
\* committed version, with the flag cleared
ClearedRows(p, ids) ==
    [l \in ids \cap DOMAIN VisibleLocations(p) |->
        [VisibleLocations(p)[l] EXCEPT !.is_primary = FALSE]]

\* The handler up to db.create_location_for_registration
create_location_for_registration(p, r, is_primary) ==
    /\ pc[p] = "idle"
    /\ seq.locs < MaxLocs
    /\ IF r \notin DOMAIN registrations
       THEN /\ Respond(p, RegistrationNotFound)
            /\ UNCHANGED <<registrations, review_events, locations, promotions, promotion_locations, business_units, tx, seq>>
       ELSE LET loc == into_new_location(seq.locs + 1, r, is_primary, LocationsOf(r) = {}) IN
            /\ req' = [req EXCEPT ![p] = [op |-> "create_location", location |-> loc]]
            /\ seq' = [seq EXCEPT !.locs = @ + 1]
            /\ Goto(p, IF loc.is_primary THEN "cl_clear" ELSE "cl_insert")
            /\ UNCHANGED <<registrations, review_events, locations, promotions, promotion_locations, business_units, tx>>

\* insert_location_with_tx, if is_primary: the UPDATE that clears the flag of
\* the registration's rows; it waits when one of them is locked
create_location_clear(p) ==
    LET ids == ClearTargets(p, req[p].location.registration_id, 0) IN
    /\ pc[p] = "cl_clear"
    /\ IF \E l \in ids : LockedLocation(p, l)
       THEN /\ req' = [req EXCEPT ![p] = [op |-> @.op, location |-> @.location, snapshot |-> ids]]
            /\ Goto(p, "cl_clear_wait")
            /\ UNCHANGED <<registrations, review_events, locations, promotions, promotion_locations, business_units, tx, seq>>
       ELSE /\ tx' = [tx EXCEPT ![p].locs = Overlay(@, ClearedRows(p, ids))]
            /\ Goto(p, "cl_insert")
            /\ UNCHANGED <<registrations, review_events, locations, promotions, promotion_locations, business_units, req, seq>>

\* The waiting UPDATE goes on when the locks are released: it updates the
\* rows of its snapshot, not the rows committed since
create_location_clear_wait(p) ==
    /\ pc[p] = "cl_clear_wait"
    /\ \A l \in req[p].snapshot : ~LockedLocation(p, l)
    /\ tx' = [tx EXCEPT ![p].locs = Overlay(@, ClearedRows(p, req[p].snapshot))]
    /\ Goto(p, "cl_insert")
    /\ UNCHANGED <<registrations, review_events, locations, promotions, promotion_locations, business_units, req, seq>>

\* INSERT INTO business_locations and tx.commit()
create_location_commit(p) ==
    /\ pc[p] = "cl_insert"
    /\ locations' = Overlay(Overlay(locations, tx[p].locs),
                            (req[p].location.id :> req[p].location))
    /\ tx' = [tx EXCEPT ![p] = NoTx]
    /\ Respond(p, Created201)
    /\ UNCHANGED <<registrations, review_events, promotions, promotion_locations, business_units, seq>>

\* A statement of create_location_for_registration returns Err
create_location_fail(p) ==
    /\ pc[p] \in {"cl_clear", "cl_clear_wait", "cl_insert"}
    /\ Rollback(p)
    /\ Respond(p, FailedToCreateLocation)
    /\ UNCHANGED seq

\* The handler up to db.update_location: the row it fetched with the payload applied
update_location_for_registration(p, r, l, is_primary) ==
    /\ pc[p] = "idle"
    /\ IF r \notin DOMAIN registrations
       THEN /\ Respond(p, RegistrationNotFound)
            /\ UNCHANGED <<registrations, review_events, locations, promotions, promotion_locations, business_units, tx, seq>>
       ELSE IF l \notin LocationsOf(r)
       THEN /\ Respond(p, LocationNotFound)
            /\ UNCHANGED <<registrations, review_events, locations, promotions, promotion_locations, business_units, tx, seq>>
       ELSE /\ req' = [req EXCEPT ![p] =
                    [op |-> "update_location",
                     location |-> [locations[l] EXCEPT !.is_primary = is_primary]]]
            /\ Goto(p, IF is_primary THEN "ul_clear" ELSE "ul_update")
            /\ UNCHANGED <<registrations, review_events, locations, promotions, promotion_locations, business_units, tx, seq>>

\* update_location, if is_primary: UPDATE ... SET is_primary = FALSE on the siblings
update_location_clear(p) ==
    LET ids == ClearTargets(p, req[p].location.registration_id, req[p].location.id) IN
    /\ pc[p] = "ul_clear"
    /\ IF \E l \in ids : LockedLocation(p, l)
       THEN /\ req' = [req EXCEPT ![p] = [op |-> @.op, location |-> @.location, snapshot |-> ids]]
            /\ Goto(p, "ul_clear_wait")
            /\ UNCHANGED <<registrations, review_events, locations, promotions, promotion_locations, business_units, tx, seq>>
       ELSE /\ tx' = [tx EXCEPT ![p].locs = Overlay(@, ClearedRows(p, ids))]
            /\ Goto(p, "ul_update")
            /\ UNCHANGED <<registrations, review_events, locations, promotions, promotion_locations, business_units, req, seq>>

update_location_clear_wait(p) ==
    /\ pc[p] = "ul_clear_wait"
    /\ \A l \in req[p].snapshot : ~LockedLocation(p, l)
    /\ tx' = [tx EXCEPT ![p].locs = Overlay(@, ClearedRows(p, req[p].snapshot))]
    /\ Goto(p, "ul_update")
    /\ UNCHANGED <<registrations, review_events, locations, promotions, promotion_locations, business_units, req, seq>>

\* What a request answers when update_location returns Err
UpdateLocationError(q) ==
    IF q.op = "delete_location" THEN FailedToPromote ELSE FailedToUpdateLocation

\* update_location: UPDATE ... WHERE registration_id = $1 AND id = $2 RETURNING
\* (fetch_one); every column is set from the handler's copy of the row
update_location_update(p) ==
    LET loc == req[p].location IN
    /\ pc[p] = "ul_update"
    /\ ~LockedLocation(p, loc.id)
    /\ IF loc.id \in LocationsOf(loc.registration_id)
       THEN /\ tx' = [tx EXCEPT ![p].locs = Overlay(@, (loc.id :> loc))]
            /\ Goto(p, "ul_commit")
            /\ UNCHANGED <<registrations, review_events, locations, promotions, promotion_locations, business_units, req, seq>>
       ELSE /\ Rollback(p)
            /\ Respond(p, UpdateLocationError(req[p]))
            /\ UNCHANGED seq

update_location_commit(p) ==
    /\ pc[p] = "ul_commit"
    /\ CommitWrites(p)
    /\ Respond(p, Ok200)
    /\ UNCHANGED seq

\* A statement of update_location returns Err (a deadlock victim included)
update_location_fail(p) ==
    /\ pc[p] \in {"ul_clear", "ul_clear_wait", "ul_update", "ul_commit"}
    /\ Rollback(p)
    /\ Respond(p, UpdateLocationError(req[p]))
    /\ UNCHANGED seq

\* A handler that never takes a location for the last one
OnlyLocationNever(listed) == FALSE

\* locations.len() == 1
OnlyLocation(listed) == Cardinality(listed) = 1

\* The handler up to db.delete_location: list, find the target, refuse the last one
delete_location_for_registration(p, r, l) ==
    /\ pc[p] = "idle"
    /\ IF r \notin DOMAIN registrations
       THEN /\ Respond(p, RegistrationNotFound)
            /\ UNCHANGED <<registrations, review_events, locations, promotions, promotion_locations, business_units, tx, seq>>
       ELSE IF l \notin LocationsOf(r)
       THEN /\ Respond(p, LocationNotFound)
            /\ UNCHANGED <<registrations, review_events, locations, promotions, promotion_locations, business_units, tx, seq>>
       ELSE IF OnlyLocation(LocationsOf(r))
       THEN /\ Respond(p, LastLocationRequired)
            /\ UNCHANGED <<registrations, review_events, locations, promotions, promotion_locations, business_units, tx, seq>>
       ELSE /\ req' = [req EXCEPT ![p] =
                    [op |-> "delete_location", registration_id |-> r, location_id |-> l,
                     deleting_primary |-> locations[l].is_primary]]
            /\ Goto(p, "dl_delete")
            /\ UNCHANGED <<registrations, review_events, locations, promotions, promotion_locations, business_units, tx, seq>>

\* db.delete_location: DELETE ... WHERE registration_id = $1 AND id = $2 on
\* the pool (its own transaction); rows_affected() = 0 is RowNotFound. What
\* the schema does with the deleted location's rows of
\* business_promotion_locations is not in the sources: they go with the
\* location or they stay (a refusal is an Err, see delete_location_fail)
delete_location(p) ==
    LET l == req[p].location_id IN
    /\ pc[p] = "dl_delete"
    /\ ~LockedLocation(p, l)
    /\ IF l \in LocationsOf(req[p].registration_id)
       THEN /\ locations' = [k \in DOMAIN locations \ {l} |-> locations[k]]
            /\ promotion_locations' \in
                  {promotion_locations, {j \in promotion_locations : j[2] # l}}
            /\ IF req[p].deleting_primary
               THEN Goto(p, "dl_promote") /\ UNCHANGED req
               ELSE Respond(p, Ok200)
            /\ UNCHANGED <<registrations, review_events, promotions, business_units, tx, seq>>
       ELSE /\ Respond(p, LocationNotFound)
            /\ UNCHANGED <<registrations, review_events, locations, promotions, promotion_locations, business_units, tx, seq>>

\* if deleting_primary: list what remains and, when no row is primary,
\* promote remaining.first() with update_location
delete_location_promote(p) ==
    LET remaining == LocationsOf(req[p].registration_id) IN
    /\ pc[p] = "dl_promote"
    /\ IF remaining = {} \/ \E l \in remaining : locations[l].is_primary
       THEN Respond(p, Ok200)
       ELSE /\ req' = [req EXCEPT ![p] =
                    [op |-> "delete_location",
                     location |-> [locations[FirstListed(remaining)] EXCEPT !.is_primary = TRUE]]]
            /\ Goto(p, "ul_clear")
    /\ UNCHANGED <<registrations, review_events, locations, promotions, promotion_locations, business_units, tx, seq>>

\* db.delete_location or the listing of the remaining rows returns Err
delete_location_fail(p) ==
    /\ pc[p] \in {"dl_delete", "dl_promote"}
    /\ Respond(p, FailedToDeleteLocation)
    /\ UNCHANGED <<registrations, review_events, locations, promotions, promotion_locations, business_units, tx, seq>>

LocationActions(p) ==
    \/ \E r \in 1..MaxRegs, is_primary \in BOOLEAN : create_location_for_registration(p, r, is_primary)
    \/ create_location_clear(p)
    \/ create_location_clear_wait(p)
    \/ create_location_commit(p)
    \/ create_location_fail(p)
    \/ \E r \in 1..MaxRegs, l \in 1..MaxLocs, is_primary \in BOOLEAN :
          update_location_for_registration(p, r, l, is_primary)
    \/ update_location_clear(p)
    \/ update_location_clear_wait(p)
    \/ update_location_update(p)
    \/ update_location_commit(p)
    \/ update_location_fail(p)
    \/ \E r \in 1..MaxRegs, l \in 1..MaxLocs : delete_location_for_registration(p, r, l)
    \/ delete_location(p)
    \/ delete_location_promote(p)
    \/ delete_location_fail(p)

NextLoc == \E p \in Procs : RegistrationActions(p) \/ LocationActions(p)

\* Registrations and their locations, created, updated and deleted concurrently
SpecLoc == Init /\ [][NextLoc]_vars

\* Registration payloads with one and with two initial locations
SeveralLocationCounts == {1, 2}

RegistrationActionsWithSeveralLocations(p) ==
    \/ \E u \in Users, n \in SeveralLocationCounts : submit_registration(p, u, n)
    \/ create_registration_insert(p)
    \/ create_registration_insert_location(p)
    \/ create_registration_commit(p)
    \/ create_registration_fail(p)
    \/ \E u \in Users : auto_registration_lookup(p, u)
    \/ auto_registration_insert(p)

NextCreate ==
    \E p \in Procs : RegistrationActionsWithSeveralLocations(p) \/ LocationActions(p)

\* Registrations submitted with several locations, next to the location requests
SpecCreate == Init /\ [][NextCreate]_vars

---------------------------------------------------------------------------
\* Promotions of a registration: POST, PUT /registrations/{id}/promotions

MaxPromos == 1

RegistroNotFound == [code |-> 404, msg |-> "Registro de negocio no encontrado"]
PromotionRulesViolated == [code |-> 400, msg |-> "business rules"]
LocationsNotOfRegistration ==
    [code |-> 400, msg |-> "Una o mas ubicaciones no pertenecen a esta solicitud"]
PromotionNotFound == [code |-> 404, msg |-> "Promocion no encontrada"]
FailedToCreatePromotion == [code |-> 500, msg |-> "No se pudo crear la promocion"]
FailedToUpdatePromotion == [code |-> 500, msg |-> "No se pudo actualizar la promocion"]

\* The fields of a payload the business rules read
RuleInputs ==
    {[promotion_type |-> "Discount", discount_percent |-> Some(50), prize |-> None,
      starts_at |-> 1, ends_at |-> 2, status |-> "Active"],
     [promotion_type |-> "Discount", discount_percent |-> Some(50), prize |-> None,
      starts_at |-> 2, ends_at |-> 2, status |-> "Active"],
     [promotion_type |-> "Contest", discount_percent |-> None, prize |-> None,
      starts_at |-> 1, ends_at |-> 2, status |-> "Active"],
     [promotion_type |-> "Contest", discount_percent |-> Some(50), prize |-> Some("p"),
      starts_at |-> 1, ends_at |-> 2, status |-> "Active"],
     [promotion_type |-> "Contest", discount_percent |-> None, prize |-> Some("p"),
      starts_at |-> 1, ends_at |-> 2, status |-> "Active"],
     [promotion_type |-> "Event", discount_percent |-> None, prize |-> None,
      starts_at |-> 1, ends_at |-> 2, status |-> "Active"],
     [promotion_type |-> "Discount", discount_percent |-> Some(0), prize |-> None,
      starts_at |-> 1, ends_at |-> 2, status |-> "Active"],
     [promotion_type |-> "Discount", discount_percent |-> Some(100), prize |-> None,
      starts_at |-> 1, ends_at |-> 2, status |-> "Active"],
     [promotion_type |-> "Discount", discount_percent |-> Some(150), prize |-> None,
      starts_at |-> 1, ends_at |-> 2, status |-> "Active"],
     [promotion_type |-> "Discount", discount_percent |-> Some(0 - 1), prize |-> None,
      starts_at |-> 1, ends_at |-> 2, status |-> "Active"]}

\* Scope and location_ids of a payload
ScopeInputs ==
    {[scope |-> "Business", location_ids |-> <<>>],
     [scope |-> "Business", location_ids |-> <<1>>],
     [scope |-> "Location", location_ids |-> <<>>],
     [scope |-> "Location", location_ids |-> <<1>>],
     [scope |-> "Location", location_ids |-> <<1, 1>>],
     [scope |-> "Location", location_ids |-> <<1, 2>>],
     [scope |-> "Location", location_ids |-> <<1, 3>>],
     [scope |-> "Location", location_ids |-> <<3>>]}

\* The payloads of the requests; a create is titled t1 and an update t2 (the
\* status is a field of the update payload only, a create does not read it)
PromotionBodies(title) ==
    {[title |-> title, scope |-> sc.scope, location_ids |-> sc.location_ids,
      promotion_type |-> ru.promotion_type, discount_percent |-> ru.discount_percent,
      prize |-> ru.prize, starts_at |-> ru.starts_at, ends_at |-> ru.ends_at,
      status |-> ru.status] :
        sc \in ScopeInputs, ru \in RuleInputs}

\* Business rules that take any discount of a Discount promotion
validate_without_range(b) ==
    /\ b.ends_at > b.starts_at
    /\ b.discount_percent # None => b.promotion_type = "Discount"
    /\ b.promotion_type = "Contest" => b.prize # None

\* validate_business_rules: dates, discount, prize
validate_business_rules(b) ==
    /\ b.ends_at > b.starts_at
    /\ b.discount_percent # None =>
          /\ b.promotion_type = "Discount"
          /\ Unwrap(b.discount_percent) \in 0..100
    /\ b.promotion_type = "Contest" => b.prize # None

\* The scope rule of the payload: a Location-scoped promotion names its locations
ScopeRule(b) == b.scope = "Location" => b.location_ids # <<>>

\* The values Utc::now() takes while a promotion is created
Clock == {0, 1}

\* The time of the requests whose payloads all start at 1
Started == Clock \ {0}

\* The promotion row built from the payload at the time now
into_new_promotion(id, r, b, now) ==
    [id |-> id, registration_id |-> r, title |-> b.title, scope |-> b.scope,
     status |-> IF b.starts_at > now THEN "Scheduled" ELSE "Active",
     starts_at |-> b.starts_at, created_at |-> now]

\* An update that derives the status again from starts_at
apply_rederiving_status(row, b) ==
    [row EXCEPT !.title = b.title, !.scope = b.scope, !.starts_at = b.starts_at,
                !.status = IF b.starts_at > row.created_at THEN "Scheduled" ELSE "Active"]

\* The fetched promotion with the payload applied
apply_to_existing(row, b) ==
    [row EXCEPT !.title = b.title, !.scope = b.scope,
                !.status = b.status, !.starts_at = b.starts_at]

Range(s) == {s[i] : i \in 1..Len(s)}

\* A list of ids passed on as supplied
dedupe_uuids_skipped(ids) == ids

\* dedupe_uuids: the first occurrence of each id, in order
RECURSIVE dedupe_uuids(_)
dedupe_uuids(ids) ==
    IF ids = <<>> THEN <<>>
    ELSE LET init == dedupe_uuids(SubSeq(ids, 1, Len(ids) - 1))
             last == ids[Len(ids)]
         IN  IF last \in Range(init) THEN init ELSE Append(init, last)

\* A sync_promotion_locations without the ownership check
LocationsBelongUnchecked(p, r, ids) == TRUE

\* sync_promotion_locations: SELECT id FROM business_locations WHERE
\* registration_id = $1 AND id = ANY($2), and rows.len() == location_ids.len()
LocationsBelong(p, r, ids) ==
    Cardinality({l \in DOMAIN VisibleLocations(p) :
                    VisibleLocations(p)[l].registration_id = r /\ l \in Range(ids)}) = Len(ids)

LockedPromotion(p, k) == \E q \in Procs \ {p} : k \in DOMAIN tx[q].promos

\* The handler up to db.create_promotion, for a request handled at the time now
create_promotion_for_registration(p, r, b, now) ==
    /\ pc[p] = "idle"
    /\ seq.promos < MaxPromos
    /\ IF r \notin DOMAIN registrations
       THEN /\ Respond(p, RegistroNotFound)
            /\ UNCHANGED <<registrations, review_events, locations, promotions, promotion_locations, business_units, tx, seq>>
       ELSE IF ~(validate_business_rules(b) /\ ScopeRule(b))
       THEN /\ Respond(p, PromotionRulesViolated)
            /\ UNCHANGED <<registrations, review_events, locations, promotions, promotion_locations, business_units, tx, seq>>
       ELSE /\ req' = [req EXCEPT ![p] =
                    [op |-> "create_promotion",
                     promotion |-> into_new_promotion(seq.promos + 1, r, b, now),
                     location_ids |-> b.location_ids]]
            /\ seq' = [seq EXCEPT !.promos = @ + 1]
            /\ Goto(p, "cp_insert")
            /\ UNCHANGED <<registrations, review_events, locations, promotions, promotion_locations, business_units, tx>>

\* create_promotion: begin, INSERT INTO business_promotions ... RETURNING
create_promotion_insert(p) ==
    /\ pc[p] = "cp_insert"
    /\ tx' = [tx EXCEPT ![p].promos = (req[p].promotion.id :> req[p].promotion)]
    /\ Goto(p, IF req[p].promotion.scope = "Location" THEN "cp_sync" ELSE "cp_commit")
    /\ UNCHANGED <<registrations, review_events, locations, promotions, promotion_locations, business_units, req, seq>>

\* What sync_promotion_locations leaves in the transaction when it returns Ok:
\* INSERT ... ON CONFLICT DO NOTHING for each id
SyncWrites(p, ids) ==
    [tx[p] EXCEPT !.join_add = @ \cup {<<req[p].promotion.id, l>> : l \in Range(ids)}]

\* if scope == Location: dedupe_uuids and sync_promotion_locations; a
\* RowNotFound drops the transaction and the handler answers 400
create_promotion_sync(p) ==
    LET ids == dedupe_uuids(req[p].location_ids) IN
    /\ pc[p] = "cp_sync"
    /\ IF ids = <<>> \/ LocationsBelong(p, req[p].promotion.registration_id, ids)
       THEN /\ tx' = [tx EXCEPT ![p] = SyncWrites(p, ids)]
            /\ Goto(p, "cp_commit")
            /\ UNCHANGED <<registrations, review_events, locations, promotions, promotion_locations, business_units, req, seq>>
       ELSE /\ Rollback(p)
            /\ Respond(p, LocationsNotOfRegistration)
            /\ UNCHANGED seq

create_promotion_commit(p) ==
    /\ pc[p] = "cp_commit"
    /\ CommitWrites(p)
    /\ Respond(p, Created201)
    /\ UNCHANGED seq

\* Another statement of create_promotion returns Err
create_promotion_fail(p) ==
    /\ pc[p] \in {"cp_insert", "cp_sync", "cp_commit"}
    /\ Rollback(p)
    /\ Respond(p, FailedToCreatePromotion)
    /\ UNCHANGED seq

\* The handler up to db.update_promotion
update_promotion_for_registration(p, r, k, b) ==
    /\ pc[p] = "idle"
    /\ IF r \notin DOMAIN registrations
       THEN /\ Respond(p, RegistroNotFound)
            /\ UNCHANGED <<registrations, review_events, locations, promotions, promotion_locations, business_units, tx, seq>>
       ELSE IF ~(validate_business_rules(b) /\ ScopeRule(b))
       THEN /\ Respond(p, PromotionRulesViolated)
            /\ UNCHANGED <<registrations, review_events, locations, promotions, promotion_locations, business_units, tx, seq>>
       ELSE IF ~(k \in DOMAIN promotions /\ promotions[k].registration_id = r)
       THEN /\ Respond(p, PromotionNotFound)
            /\ UNCHANGED <<registrations, review_events, locations, promotions, promotion_locations, business_units, tx, seq>>
       ELSE /\ req' = [req EXCEPT ![p] =
                    [op |-> "update_promotion",
                     promotion |-> apply_to_existing(promotions[k], b),
                     location_ids |-> b.location_ids]]
            /\ Goto(p, "up_update")
            /\ UNCHANGED <<registrations, review_events, locations, promotions, promotion_locations, business_units, tx, seq>>

\* update_promotion: begin, UPDATE business_promotions ... WHERE id = $1 AND
\* registration_id = $2 RETURNING (fetch_one)
update_promotion_update(p) ==
    LET row == req[p].promotion IN
    /\ pc[p] = "up_update"
    /\ ~LockedPromotion(p, row.id)
    /\ IF row.id \in DOMAIN promotions /\ promotions[row.id].registration_id = row.registration_id
       THEN /\ tx' = [tx EXCEPT ![p].promos = (row.id :> row)]
            /\ Goto(p, "up_delete")
            /\ UNCHANGED <<registrations, review_events, locations, promotions, promotion_locations, business_units, req, seq>>
       ELSE /\ Rollback(p)
            /\ Respond(p, PromotionNotFound)
            /\ UNCHANGED seq

\* An update that keeps the old associations
AssociationsOfNone(k) == {}

\* The rows of business_promotion_locations WHERE promotion_id = k
AssociationsOf(k) == {j \in promotion_locations : j[1] = k}

\* DELETE FROM business_promotion_locations WHERE promotion_id = $1
update_promotion_delete_locations(p) ==
    /\ pc[p] = "up_delete"
    /\ tx' = [tx EXCEPT ![p].join_del = AssociationsOf(req[p].promotion.id)]
    /\ Goto(p, IF req[p].promotion.scope = "Location" THEN "up_sync" ELSE "up_commit")
    /\ UNCHANGED <<registrations, review_events, locations, promotions, promotion_locations, business_units, req, seq>>

\* if scope == Location: dedupe_uuids and sync_promotion_locations; the
\* handler answers a RowNotFound with 404
update_promotion_sync(p) ==
    LET ids == dedupe_uuids(req[p].location_ids) IN
    /\ pc[p] = "up_sync"
    /\ IF ids = <<>> \/ LocationsBelong(p, req[p].promotion.registration_id, ids)
       THEN /\ tx' = [tx EXCEPT ![p] = SyncWrites(p, ids)]
            /\ Goto(p, "up_commit")
            /\ UNCHANGED <<registrations, review_events, locations, promotions, promotion_locations, business_units, req, seq>>
       ELSE /\ Rollback(p)
            /\ Respond(p, PromotionNotFound)
            /\ UNCHANGED seq

update_promotion_commit(p) ==
    /\ pc[p] = "up_commit"
    /\ CommitWrites(p)
    /\ Respond(p, Ok200)
    /\ UNCHANGED seq

\* Another statement of update_promotion returns Err
update_promotion_fail(p) ==
    /\ pc[p] \in {"up_update", "up_delete", "up_sync", "up_commit"}
    /\ Rollback(p)
    /\ Respond(p, FailedToUpdatePromotion)
    /\ UNCHANGED seq

\* The registrations the promotion requests name
PromoRegs == {1, 2}

PromotionActions(p) ==
    \/ \E r \in PromoRegs, b \in PromotionBodies("t1"), now \in Started :
          create_promotion_for_registration(p, r, b, now)
    \/ create_promotion_insert(p)
    \/ create_promotion_sync(p)
    \/ create_promotion_commit(p)
    \/ create_promotion_fail(p)
    \/ \E r \in PromoRegs, k \in 1..MaxPromos, b \in PromotionBodies("t2") :
          update_promotion_for_registration(p, r, k, b)
    \/ update_promotion_update(p)
    \/ update_promotion_delete_locations(p)
    \/ update_promotion_sync(p)
    \/ update_promotion_commit(p)
    \/ update_promotion_fail(p)

\* Two registrations exist: the first has locations 1 and 2, the second location 3
InitPromo ==
    /\ registrations = [r \in PromoRegs |-> NewRegistration(r, "u1")]
    /\ review_events = {}
    /\ locations = NewLocations(1, 2, 0) \o
                   <<[id |-> 3, registration_id |-> 2, label |-> "a",
                      is_primary |-> TRUE, created_at |-> 3]>>
    /\ promotions = <<>>
    /\ promotion_locations = {}
    /\ business_units = <<>>
    /\ pc = [p \in Procs |-> "idle"]
    /\ req = [p \in Procs |-> NoReq]
    /\ tx = [p \in Procs |-> NoTx]
    /\ resp = NoResp
    /\ seq = [regs |-> 2, events |-> 0, locs |-> 3, promos |-> 0, units |-> 0]

NextPromo == \E p \in Procs : PromotionActions(p)

\* Promotions created and updated concurrently on two registrations
SpecPromo == InitPromo /\ [][NextPromo]_vars

\* The payloads that differ in starts_at and, for an update, in status
StatusBodies(title) ==
    {[title |-> title, scope |-> sc.scope, location_ids |-> sc.location_ids,
      promotion_type |-> "Event", discount_percent |-> None, prize |-> None,
      starts_at |-> t, ends_at |-> 3, status |-> st] :
        sc \in {[scope |-> "Business", location_ids |-> <<>>],
                [scope |-> "Location", location_ids |-> <<1>>]},
        t \in 0..2, st \in {"Draft", "Scheduled", "Active"}}

PromotionStatusActions(p) ==
    \/ \E r \in PromoRegs, b \in StatusBodies("t1"), now \in Clock :
          create_promotion_for_registration(p, r, b, now)
    \/ create_promotion_insert(p)
    \/ create_promotion_sync(p)
    \/ create_promotion_commit(p)
    \/ create_promotion_fail(p)
    \/ \E r \in PromoRegs, k \in 1..MaxPromos, b \in StatusBodies("t2") :
          update_promotion_for_registration(p, r, k, b)
    \/ update_promotion_update(p)
    \/ update_promotion_delete_locations(p)
    \/ update_promotion_sync(p)
    \/ update_promotion_commit(p)
    \/ update_promotion_fail(p)

NextPromoStatus == \E p \in Procs : PromotionStatusActions(p)

\* Promotions created before, at and after their start, and updated
SpecPromoStatus == InitPromo /\ [][NextPromoStatus]_vars

\* The payloads of the promotion requests that run next to location requests:
\* every scope and list of location ids, with rule fields that pass
PassingBodies(title) ==
    {b \in PromotionBodies(title) :
        /\ b.promotion_type = "Event"
        /\ b.discount_percent = None
        /\ b.prize = None}

PromotionActionsWithLocations(p) ==
    \/ \E r \in PromoRegs, b \in PassingBodies("t1"), now \in Started :
          create_promotion_for_registration(p, r, b, now)
    \/ create_promotion_insert(p)
    \/ create_promotion_sync(p)
    \/ create_promotion_commit(p)
    \/ create_promotion_fail(p)
    \/ \E r \in PromoRegs, k \in 1..MaxPromos, b \in PassingBodies("t2") :
          update_promotion_for_registration(p, r, k, b)
    \/ update_promotion_update(p)
    \/ update_promotion_delete_locations(p)
    \/ update_promotion_sync(p)
    \/ update_promotion_commit(p)
    \/ update_promotion_fail(p)

\* The location requests on the two registrations; the updates leave the
\* primary flag alone, so the only clearing UPDATE is the one of a promotion
\* after a delete, which finds no locked row
LocationActionsOfPromoRegs(p) ==
    \/ \E r \in PromoRegs, is_primary \in BOOLEAN : create_location_for_registration(p, r, is_primary)
    \/ create_location_clear(p)
    \/ create_location_clear_wait(p)
    \/ create_location_commit(p)
    \/ create_location_fail(p)
    \/ \E r \in PromoRegs, l \in 1..MaxLocs : update_location_for_registration(p, r, l, FALSE)
    \/ update_location_clear(p)
    \/ update_location_update(p)
    \/ update_location_commit(p)
    \/ update_location_fail(p)
    \/ \E r \in PromoRegs, l \in 1..MaxLocs : delete_location_for_registration(p, r, l)
    \/ delete_location(p)
    \/ delete_location_promote(p)
    \/ delete_location_fail(p)

\* Two registrations with one location each; a third location can be created
InitPromoLoc ==
    /\ registrations = [r \in PromoRegs |-> NewRegistration(r, "u1")]
    /\ review_events = {}
    /\ locations = <<[id |-> 1, registration_id |-> 1, label |-> "a",
                      is_primary |-> TRUE, created_at |-> 1],
                     [id |-> 2, registration_id |-> 2, label |-> "a",
                      is_primary |-> TRUE, created_at |-> 2]>>
    /\ promotions = <<>>
    /\ promotion_locations = {}
    /\ business_units = <<>>
    /\ pc = [p \in Procs |-> "idle"]
    /\ req = [p \in Procs |-> NoReq]
    /\ tx = [p \in Procs |-> NoTx]
    /\ resp = NoResp
    /\ seq = [regs |-> 2, events |-> 0, locs |-> 2, promos |-> 0, units |-> 0]

NextPromoLoc ==
    \E p \in Procs : PromotionActionsWithLocations(p) \/ LocationActionsOfPromoRegs(p)

\* Promotions and the locations they name, changed concurrently
SpecPromoLoc == InitPromoLoc /\ [][NextPromoLoc]_vars

\* Database::create_promotion called with a promotion row and a list of
\* location ids: the function itself checks neither of them before its INSERT
db_create_promotion(p, r, b, now) ==
    /\ pc[p] = "idle"
    /\ seq.promos < MaxPromos
    /\ req' = [req EXCEPT ![p] =
            [op |-> "create_promotion",
             promotion |-> into_new_promotion(seq.promos + 1, r, b, now),
             location_ids |-> b.location_ids]]
    /\ seq' = [seq EXCEPT !.promos = @ + 1]
    /\ Goto(p, "cp_insert")
    /\ UNCHANGED <<registrations, review_events, locations, promotions, promotion_locations, business_units, tx>>

\* Database::update_promotion called with a fetched promotion changed by a
\* payload, and a list of location ids
db_update_promotion(p, k, b) ==
    /\ pc[p] = "idle"
    /\ k \in DOMAIN promotions
    /\ req' = [req EXCEPT ![p] =
            [op |-> "update_promotion",
             promotion |-> apply_to_existing(promotions[k], b),
             location_ids |-> b.location_ids]]
    /\ Goto(p, "up_update")
    /\ UNCHANGED <<registrations, review_events, locations, promotions, promotion_locations, business_units, tx, seq>>

PromotionDbActions(p) ==
    \/ \E r \in PromoRegs, b \in PassingBodies("t1"), now \in Started :
          db_create_promotion(p, r, b, now)
    \/ create_promotion_insert(p)
    \/ create_promotion_sync(p)
    \/ create_promotion_commit(p)
    \/ create_promotion_fail(p)
    \/ \E k \in 1..MaxPromos, b \in PassingBodies("t2") : db_update_promotion(p, k, b)
    \/ update_promotion_update(p)
    \/ update_promotion_delete_locations(p)
    \/ update_promotion_sync(p)
    \/ update_promotion_commit(p)
    \/ update_promotion_fail(p)

NextPromoDb == \E p \in Procs : PromotionDbActions(p)

\* The persistence layer of the promotions, called with any row and id list
SpecPromoDb == InitPromo /\ [][NextPromoDb]_vars

---------------------------------------------------------------------------
\* Business units of a company: POST /companies/{id}/units, PUT and DELETE
\* /units/{id}, POST /units/{id}/set-primary

MaxUnits == 2

\* The companies that exist
Companies == {1, 2}

NoContent204 == [code |-> 204, msg |-> "no content"]
UnitNotFound == [code |-> 404, msg |-> "Unidad de negocio no encontrada"]
FailedToCreateUnit == [code |-> 500, msg |-> "No se pudo crear la unidad de negocio"]
FailedToUpdateUnit == [code |-> 500, msg |-> "No se pudo actualizar la unidad de negocio"]
FailedToSetPrimaryUnit == [code |-> 500, msg |-> "No se pudo establecer la unidad como principal"]
UpdatedUnitNotFetched == [code |-> 500, msg |-> "Unidad actualizada pero no se pudo recuperar"]

LockedUnit(p, k) == \E q \in Procs \ {p} : k \in DOMAIN tx[q].units

\* What a statement of p's transaction sees of business_units
VisibleUnits(p) == Overlay(business_units, tx[p].units)

\* get_business_unit: SELECT ... WHERE id = $1, fetch_optional
get_business_unit(k) ==
    IF k \in DOMAIN business_units THEN Some(business_units[k]) ELSE None

\* A clearing UPDATE that finds no row
UnitClearTargetsNone(p, c, except) == {}

\* The rows an UPDATE business_units SET is_primary = FALSE WHERE company_id = c
\* [AND id != except] finds in its statement snapshot
UnitClearTargets(p, c, except) ==
    {k \in DOMAIN VisibleUnits(p) : VisibleUnits(p)[k].company_id = c /\ k # except}

\* The statement's writes: each target that still exists, in its latest
\* committed version, with the flag cleared
ClearedUnits(p, ids) ==
    [k \in ids \cap DOMAIN VisibleUnits(p) |-> [VisibleUnits(p)[k] EXCEPT !.is_primary = FALSE]]

\* The row INSERT INTO business_units ... RETURNING gives
NewBusinessUnit(id, c, registration_id, is_primary) ==
    [id |-> id, company_id |-> c, registration_id |-> registration_id,
     unit_name |-> "a", is_primary |-> is_primary]

\* The handler up to create_business_unit: get_or_create_auto_registration
\* finds an approved registration of the actor or has to insert one
create_business_unit_for_company(p, u, c, is_primary) ==
    /\ pc[p] = "idle"
    /\ seq.units < MaxUnits
    /\ seq' = [seq EXCEPT !.units = @ + 1]
    /\ IF ApprovedRegistrationsOf(u) # {}
       THEN /\ \E r \in ApprovedRegistrationsOf(u) :
                 req' = [req EXCEPT ![p] =
                    [op |-> "create_unit",
                     unit |-> NewBusinessUnit(seq.units + 1, c, Some(r), is_primary)]]
            /\ Goto(p, IF is_primary THEN "cu_clear" ELSE "cu_insert")
       ELSE /\ req' = [req EXCEPT ![p] =
                    [op |-> "create_unit", user_id |-> u,
                     unit |-> NewBusinessUnit(seq.units + 1, c, None, is_primary)]]
            /\ Goto(p, "cu_auto_registration")
    /\ UNCHANGED <<registrations, review_events, locations, promotions, promotion_locations, business_units, tx>>

\* get_or_create_auto_registration inserts the auto-approved registration
create_business_unit_auto_registration(p) ==
    LET unit == req[p].unit IN
    /\ pc[p] = "cu_auto_registration"
    /\ seq.regs < MaxRegs
    /\ seq' = [seq EXCEPT !.regs = @ + 1]
    /\ registrations' = Overlay(registrations,
                            ((seq.regs + 1) :> AutoRegistration(seq.regs + 1, req[p].user_id)))
    /\ req' = [req EXCEPT ![p] =
                  [op |-> "create_unit",
                   unit |-> [unit EXCEPT !.registration_id = Some(seq.regs + 1)]]]
    /\ Goto(p, IF unit.is_primary THEN "cu_clear" ELSE "cu_insert")
    /\ UNCHANGED <<review_events, locations, promotions, promotion_locations, business_units, tx>>

\* get_or_create_auto_registration returns Err: the handler logs a warning
\* and creates the unit with registration_id = None
create_business_unit_without_registration(p) ==
    /\ pc[p] = "cu_auto_registration"
    /\ req' = [req EXCEPT ![p] = [op |-> "create_unit", unit |-> req[p].unit]]
    /\ Goto(p, IF req[p].unit.is_primary THEN "cu_clear" ELSE "cu_insert")
    /\ UNCHANGED <<registrations, review_events, locations, promotions, promotion_locations, business_units, tx, seq>>

\* create_business_unit, if is_primary: UPDATE ... SET is_primary = FALSE
\* WHERE company_id = $1; it waits when one of the rows is locked
create_business_unit_clear(p) ==
    LET ids == UnitClearTargets(p, req[p].unit.company_id, 0) IN
    /\ pc[p] = "cu_clear"
    /\ IF \E k \in ids : LockedUnit(p, k)
       THEN /\ req' = [req EXCEPT ![p] = [op |-> @.op, unit |-> @.unit, snapshot |-> ids]]
            /\ Goto(p, "cu_clear_wait")
            /\ UNCHANGED <<registrations, review_events, locations, promotions, promotion_locations, business_units, tx, seq>>
       ELSE /\ tx' = [tx EXCEPT ![p].units = Overlay(@, ClearedUnits(p, ids))]
            /\ Goto(p, "cu_insert")
            /\ UNCHANGED <<registrations, review_events, locations, promotions, promotion_locations, business_units, req, seq>>

\* The waiting UPDATE goes on when the locks are released: it updates the
\* rows of its snapshot, not the rows committed since
create_business_unit_clear_wait(p) ==
    /\ pc[p] = "cu_clear_wait"
    /\ \A k \in req[p].snapshot : ~LockedUnit(p, k)
    /\ tx' = [tx EXCEPT ![p].units = Overlay(@, ClearedUnits(p, req[p].snapshot))]
    /\ Goto(p, "cu_insert")
    /\ UNCHANGED <<registrations, review_events, locations, promotions, promotion_locations, business_units, req, seq>>

\* INSERT INTO business_units ... RETURNING and tx.commit()
create_business_unit_commit(p) ==
    /\ pc[p] = "cu_insert"
    /\ registrations' = registrations
    /\ review_events' = review_events
    /\ locations' = locations
    /\ promotions' = promotions
    /\ promotion_locations' = promotion_locations
    /\ business_units' = Overlay(business_units,
                            Overlay(tx[p].units, (req[p].unit.id :> req[p].unit)))
    /\ tx' = [tx EXCEPT ![p] = NoTx]
    /\ Respond(p, Created201)
    /\ UNCHANGED seq

\* A statement of create_business_unit returns Err
create_business_unit_fail(p) ==
    /\ pc[p] \in {"cu_clear", "cu_clear_wait", "cu_insert"}
    /\ Rollback(p)
    /\ Respond(p, FailedToCreateUnit)
    /\ UNCHANGED seq

\* The handler up to db.update_business_unit: the row it fetched with the
\* payload's unit_name, category and is_primary applied
update_business_unit_by_id(p, k, is_primary) ==
    /\ pc[p] = "idle"
    /\ IF get_business_unit(k) = None
       THEN Respond(p, UnitNotFound)
       ELSE /\ req' = [req EXCEPT ![p] =
                    [op |-> "update_unit",
                     unit |-> [Unwrap(get_business_unit(k)) EXCEPT
                                  !.unit_name = "b", !.is_primary = is_primary]]]
            /\ Goto(p, IF is_primary THEN "uu_clear" ELSE "uu_update")
    /\ UNCHANGED <<registrations, review_events, locations, promotions, promotion_locations, business_units, tx, seq>>

\* update_business_unit, if unit.is_primary: UPDATE ... SET is_primary = FALSE
\* WHERE company_id = $1 AND id != $2
update_business_unit_clear(p) ==
    LET ids == UnitClearTargets(p, req[p].unit.company_id, req[p].unit.id) IN
    /\ pc[p] = "uu_clear"
    /\ IF \E k \in ids : LockedUnit(p, k)
       THEN /\ req' = [req EXCEPT ![p] = [op |-> @.op, unit |-> @.unit, snapshot |-> ids]]
            /\ Goto(p, "uu_clear_wait")
            /\ UNCHANGED <<registrations, review_events, locations, promotions, promotion_locations, business_units, tx, seq>>
       ELSE /\ tx' = [tx EXCEPT ![p].units = Overlay(@, ClearedUnits(p, ids))]
            /\ Goto(p, "uu_update")
            /\ UNCHANGED <<registrations, review_events, locations, promotions, promotion_locations, business_units, req, seq>>

update_business_unit_clear_wait(p) ==
    /\ pc[p] = "uu_clear_wait"
    /\ \A k \in req[p].snapshot : ~LockedUnit(p, k)
    /\ tx' = [tx EXCEPT ![p].units = Overlay(@, ClearedUnits(p, req[p].snapshot))]
    /\ Goto(p, "uu_update")
    /\ UNCHANGED <<registrations, review_events, locations, promotions, promotion_locations, business_units, req, seq>>

\* UPDATE business_units SET unit_name, category, is_primary, is_active,
\* metadata WHERE id = $1 RETURNING (fetch_one: no row is RowNotFound)
update_business_unit_update(p) ==
    LET unit == req[p].unit IN
    /\ pc[p] = "uu_update"
    /\ ~LockedUnit(p, unit.id)
    /\ IF unit.id \in DOMAIN VisibleUnits(p)
       THEN /\ tx' = [tx EXCEPT ![p].units =
                        Overlay(@, (unit.id :> [VisibleUnits(p)[unit.id] EXCEPT
                                                   !.unit_name = unit.unit_name,
                                                   !.is_primary = unit.is_primary]))]
            /\ Goto(p, "uu_commit")
            /\ UNCHANGED <<registrations, review_events, locations, promotions, promotion_locations, business_units, req, seq>>
       ELSE /\ Rollback(p)
            /\ Respond(p, FailedToUpdateUnit)
            /\ UNCHANGED seq

update_business_unit_commit(p) ==
    /\ pc[p] = "uu_commit"
    /\ CommitWrites(p)
    /\ Respond(p, Ok200)
    /\ UNCHANGED seq

\* A statement of update_business_unit returns Err (a deadlock victim included)
update_business_unit_fail(p) ==
    /\ pc[p] \in {"uu_clear", "uu_clear_wait", "uu_update", "uu_commit"}
    /\ Rollback(p)
    /\ Respond(p, FailedToUpdateUnit)
    /\ UNCHANGED seq

\* The handler up to db.set_primary_unit(unit.company_id, unit_id)
set_primary_unit_by_id(p, k) ==
    /\ pc[p] = "idle"
    /\ IF get_business_unit(k) = None
       THEN Respond(p, UnitNotFound)
       ELSE /\ req' = [req EXCEPT ![p] =
                    [op |-> "set_primary_unit", unit_id |-> k,
                     company_id |-> Unwrap(get_business_unit(k)).company_id]]
            /\ Goto(p, "sp_clear")
    /\ UNCHANGED <<registrations, review_events, locations, promotions, promotion_locations, business_units, tx, seq>>

\* set_primary_unit: UPDATE ... SET is_primary = FALSE WHERE company_id = $1
set_primary_unit_clear(p) ==
    LET ids == UnitClearTargets(p, req[p].company_id, 0) IN
    /\ pc[p] = "sp_clear"
    /\ IF \E k \in ids : LockedUnit(p, k)
       THEN /\ req' = [req EXCEPT ![p] =
                    [op |-> @.op, unit_id |-> @.unit_id, company_id |-> @.company_id,
                     snapshot |-> ids]]
            /\ Goto(p, "sp_clear_wait")
            /\ UNCHANGED <<registrations, review_events, locations, promotions, promotion_locations, business_units, tx, seq>>
       ELSE /\ tx' = [tx EXCEPT ![p].units = Overlay(@, ClearedUnits(p, ids))]
            /\ Goto(p, "sp_set")
            /\ UNCHANGED <<registrations, review_events, locations, promotions, promotion_locations, business_units, req, seq>>

set_primary_unit_clear_wait(p) ==
    /\ pc[p] = "sp_clear_wait"
    /\ \A k \in req[p].snapshot : ~LockedUnit(p, k)
    /\ tx' = [tx EXCEPT ![p].units = Overlay(@, ClearedUnits(p, req[p].snapshot))]
    /\ Goto(p, "sp_set")
    /\ UNCHANGED <<registrations, review_events, locations, promotions, promotion_locations, business_units, req, seq>>

\* set_primary_unit: UPDATE ... SET is_primary = TRUE WHERE id = $1 (execute:
\* a statement that finds no row is not an error)
set_primary_unit_set(p) ==
    LET k == req[p].unit_id IN
    /\ pc[p] = "sp_set"
    /\ ~LockedUnit(p, k)
    /\ tx' = [tx EXCEPT ![p].units =
                 IF k \in DOMAIN VisibleUnits(p)
                 THEN Overlay(@, (k :> [VisibleUnits(p)[k] EXCEPT !.is_primary = TRUE]))
                 ELSE @]
    /\ Goto(p, "sp_commit")
    /\ UNCHANGED <<registrations, review_events, locations, promotions, promotion_locations, business_units, req, seq>>

set_primary_unit_commit(p) ==
    /\ pc[p] = "sp_commit"
    /\ CommitWrites(p)
    /\ Goto(p, "sp_fetch")
    /\ UNCHANGED <<req, seq>>

\* The handler fetches the unit again to answer
set_primary_unit_fetch(p) ==
    /\ pc[p] = "sp_fetch"
    /\ Respond(p, IF get_business_unit(req[p].unit_id) = None
                  THEN UpdatedUnitNotFetched ELSE Ok200)
    /\ UNCHANGED <<registrations, review_events, locations, promotions, promotion_locations, business_units, tx, seq>>

\* A statement of set_primary_unit returns Err (a deadlock victim included)
set_primary_unit_fail(p) ==
    /\ pc[p] \in {"sp_clear", "sp_clear_wait", "sp_set", "sp_commit"}
    /\ Rollback(p)
    /\ Respond(p, FailedToSetPrimaryUnit)
    /\ UNCHANGED seq

\* DELETE FROM business_units WHERE id = $1 on the pool; the number of rows
\* is not looked at and the handler answers 204
delete_business_unit(p, k) ==
    /\ pc[p] = "idle"
    /\ ~LockedUnit(p, k)
    /\ business_units' = [j \in DOMAIN business_units \ {k} |-> business_units[j]]
    /\ Respond(p, NoContent204)
    /\ UNCHANGED <<registrations, review_events, locations, promotions, promotion_locations, tx, seq>>

SetPrimaryUnitActions(p) ==
    \/ \E k \in 1..MaxUnits : set_primary_unit_by_id(p, k)
    \/ set_primary_unit_clear(p)
    \/ set_primary_unit_clear_wait(p)
    \/ set_primary_unit_set(p)
    \/ set_primary_unit_commit(p)
    \/ set_primary_unit_fetch(p)
    \/ set_primary_unit_fail(p)

UnitActions(p) ==
    \/ \E u \in Users, c \in Companies, is_primary \in BOOLEAN :
          create_business_unit_for_company(p, u, c, is_primary)
    \/ create_business_unit_auto_registration(p)
    \/ create_business_unit_without_registration(p)
    \/ create_business_unit_clear(p)
    \/ create_business_unit_clear_wait(p)
    \/ create_business_unit_commit(p)
    \/ create_business_unit_fail(p)
    \/ \E k \in 1..MaxUnits, is_primary \in BOOLEAN : update_business_unit_by_id(p, k, is_primary)
    \/ update_business_unit_clear(p)
    \/ update_business_unit_clear_wait(p)
    \/ update_business_unit_update(p)
    \/ update_business_unit_commit(p)
    \/ update_business_unit_fail(p)
    \/ SetPrimaryUnitActions(p)
    \/ \E k \in 1..MaxUnits : delete_business_unit(p, k)

NextUnit == \E p \in Procs : UnitActions(p)

\* The units of the companies are created, updated, made primary and deleted
\* concurrently
SpecUnit == Init /\ [][NextUnit]_vars

\* A registration with three locations and a company with two units, each
\* with its first child primary
InitSetPrimary ==
    /\ registrations = <<NewRegistration(1, "u1")>>
    /\ review_events = {}
    /\ locations = NewLocations(1, 3, 0)
    /\ promotions = <<>>
    /\ promotion_locations = {}
    /\ business_units = <<NewBusinessUnit(1, 1, None, TRUE), NewBusinessUnit(2, 1, None, FALSE)>>
    /\ pc = [p \in Procs |-> "idle"]
    /\ req = [p \in Procs |-> NoReq]
    /\ tx = [p \in Procs |-> NoTx]
    /\ resp = NoResp
    /\ seq = [regs |-> 1, events |-> 0, locs |-> 3, promos |-> 0, units |-> 2]

SetPrimaryLocationActions(p) ==
    \/ \E r \in 1..MaxRegs, l \in 1..MaxLocs : update_location_for_registration(p, r, l, TRUE)
    \/ update_location_clear(p)
    \/ update_location_clear_wait(p)
    \/ update_location_update(p)
    \/ update_location_commit(p)
    \/ update_location_fail(p)

NextSetPrimary == \E p \in Procs : SetPrimaryLocationActions(p) \/ SetPrimaryUnitActions(p)

\* Only set-primary requests run, concurrently, on the children of one parent
SpecSetPrimary == InitSetPrimary /\ [][NextSetPrimary]_vars

---------------------------------------------------------------------------
\* Review workflow properties

EventsOf(r) == {e \in review_events : e.registration_id = r}

\* The transitions of the review state machine
LegalTransitions ==
    {<<"Pending", "UnderReview">>, <<"Pending", "Approved">>,
     <<"Pending", "Rejected">>, <<"Pending", "Suspended">>,
     <<"UnderReview", "Approved">>, <<"UnderReview", "Rejected">>,
     <<"UnderReview", "Suspended">>,
     <<"Approved", "Suspended">>,
     <<"Suspended", "UnderReview">>}

\* C1: every committed change of a registration's status is a legal
\* transition of the review state machine.
C1_OnlyLegalTransitions ==
    [][\A r \in DOMAIN registrations :
          registrations'[r].status # registrations[r].status
              => <<registrations[r].status, registrations'[r].status>> \in LegalTransitions]_vars

\* C2: in every committed state the ReviewEvent rows of a registration are
\* exactly those of the review actions whose UPDATE the registration row has
\* taken: no event without its update, no update without its event.
C2_EventIffUpdate ==
    /\ \A e \in review_events : e.registration_id \in DOMAIN registrations
    /\ \A r \in DOMAIN registrations : {e.id : e \in EventsOf(r)} = registrations[r].applied

\* C2 witness: one review action is committed (event and update both there)
\* and another has just failed and been rolled back.
C2_Witness ==
    /\ resp = FailedToRecord
    /\ \E e \in review_events : e.id \in registrations[e.registration_id].applied
    /\ seq.events > Cardinality(review_events)

\* C3: a registration's status differs between two consecutive committed
\* states only if the same step records a ReviewEvent for it, and the number
\* of its review events never decreases.
C3_StatusChangesOnlyWithEvent ==
    [][\A r \in DOMAIN registrations :
          /\ r \in DOMAIN registrations'
          /\ registrations'[r].status # registrations[r].status
                => \E e \in review_events' \ review_events : e.registration_id = r
          /\ Cardinality({e \in review_events' : e.registration_id = r})
                >= Cardinality(EventsOf(r))]_vars

\* C3 witness: a registration whose status a review action has changed.
C3_Witness ==
    \E r \in DOMAIN registrations :
        /\ registrations[r].status = "Rejected"
        /\ Cardinality(EventsOf(r)) = 1

\* The database as the requests of other workers see it, and the open transactions
Persisted == <<registrations, review_events, locations, promotions, promotion_locations, business_units, tx>>

\* C4: a Reject without rejection_reason on an existing registration is
\* answered 400 (rejection reason required) and writes nothing.
C4_RejectWithoutReasonRefused ==
    [][\A p \in Procs, r \in DOMAIN registrations, b \in PayloadInputs, who \in ReviewerInputs :
          submit_review_action(p, r, "Reject", b.notes, None,
                               who.reviewer_id, who.reviewer_name)
              => /\ resp' = RejectionReasonRequired
                 /\ pc'[p] = "idle"
                 /\ UNCHANGED Persisted]_vars

\* C4 witness: the refusal has been sent for an existing registration.
C4_Witness ==
    /\ resp = RejectionReasonRequired
    /\ registrations # <<>>

\* The statuses of the mapping table; Comment keeps the status the handler fetched
MappingTable ==
    [Approve |-> "Approved", Reject |-> "Rejected", RequestMoreInfo |-> "UnderReview",
     Suspend |-> "Suspended", Resume |-> "UnderReview"]

\* C8: the status an accepted review action writes is the mapping table's:
\* the handler maps the action (Comment: the status of the registration it
\* fetched), and the commit writes that status to the registration.
C8_StatusFollowsMappingTable ==
    [][\A p \in Procs :
          /\ (pc[p] = "idle" /\ pc'[p] = "rr_write")
                => req'[p].new_status =
                      IF req'[p].action = "Comment"
                      THEN registrations[req'[p].registration_id].status
                      ELSE MappingTable[req'[p].action]
          /\ (pc[p] = "rr_commit" /\ resp' = Ok200 /\ pc'[p] = "idle")
                => registrations'[req[p].registration_id].status =
                      IF req[p].action = "Comment"
                      THEN req[p].new_status
                      ELSE MappingTable[req[p].action]]_vars

\* C8 witness: an Approve and then a Comment are committed on a registration
\* that is Approved.
C8_Witness ==
    \E r \in DOMAIN registrations :
        /\ registrations[r].status = "Approved"
        /\ \E e \in EventsOf(r) : e.action = "Approve" /\ e.id = 1
        /\ \E e \in EventsOf(r) : e.action = "Comment" /\ e.id = 2

\* A reviewer name that is empty or made of whitespace only
BlankName(n) == \A i \in 1..Len(n) : n[i] \in Whitespace

\* C9: a review action without reviewer_id, or whose reviewer_name is absent,
\* empty or whitespace-only, is answered 400 and writes nothing, whatever the action.
C9_ReviewerIdentityRequired ==
    [][\A p \in Procs, r \in DOMAIN registrations, action \in ReviewActions,
         b \in PayloadInputs, who \in ReviewerInputs :
          /\ \/ who.reviewer_id = None
             \/ who.reviewer_name = None
             \/ who.reviewer_name # None /\ BlankName(Unwrap(who.reviewer_name))
          /\ submit_review_action(p, r, action, b.notes, b.rejection_reason,
                                  who.reviewer_id, who.reviewer_name)
          => /\ resp'.code = 400
             /\ pc'[p] = "idle"
             /\ UNCHANGED Persisted]_vars

\* C9 witness: the refusal for a missing reviewer identity has been sent.
C9_Witness ==
    /\ resp = ReviewerRequired
    /\ registrations # <<>>

\* C10: the commit of a Comment review action leaves the registration's
\* status as it was and adds exactly one ReviewEvent, a Comment, to its history.
C10_CommentKeepsStatus ==
    [][\A p \in Procs :
          (pc[p] = "rr_commit" /\ req[p].action = "Comment" /\ resp' = Ok200 /\ pc'[p] = "idle")
              => LET r == req[p].registration_id IN
                 /\ registrations'[r].status = registrations[r].status
                 /\ \E e \in review_events' \ review_events :
                        /\ e.action = "Comment"
                        /\ e.registration_id = r
                        /\ review_events' = review_events \cup {e}]_vars

---------------------------------------------------------------------------
\* Location properties

PrimariesOf(r) == {l \in LocationsOf(r) : locations[l].is_primary}

\* C5: in every committed state each registration has at most one location
\* with is_primary = TRUE, whatever the interleaving of the location requests.
C5_AtMostOnePrimary ==
    \A r \in DOMAIN registrations : Cardinality(PrimariesOf(r)) <= 1

\* C6: every registration that exists has at least one location.
C6_EveryRegistrationHasLocation ==
    \A r \in DOMAIN registrations : LocationsOf(r) # {}

---------------------------------------------------------------------------
\* Promotion properties

\* The request is Location-scoped and names a location that is not one of
\* the promotion's registration
HasForeignLocation(q) ==
    /\ q.promotion.scope = "Location"
    /\ \E l \in Range(q.location_ids) : l \notin LocationsOf(q.promotion.registration_id)

\* C7: a create or update of a Location-scoped promotion that names a
\* location of another registration fails entirely: no step of the request
\* changes the committed promotions or associations, the request never
\* reaches its commit, and it ends with an error and its writes dropped.
C7_ForeignLocationFailsEntirely ==
    [][\A p \in Procs :
          (/\ pc[p] \in {"cp_insert", "cp_sync", "up_update", "up_delete", "up_sync"}
           /\ HasForeignLocation(req[p])
           /\ pc'[p] # pc[p])
              => /\ promotions' = promotions
                 /\ promotion_locations' = promotion_locations
                 /\ pc'[p] \notin {"cp_commit", "up_commit"}
                 /\ pc'[p] = "idle" => resp'.code \in {400, 404, 500} /\ tx'[p] = NoTx]_vars

\* C7 witness: a create naming a foreign location has been refused by
\* sync_promotion_locations after its promotion row was inserted, and no
\* promotion row is left.
C7_Witness ==
    /\ resp = LocationsNotOfRegistration
    /\ seq.promos = 1
    /\ promotions = <<>>
    /\ promotion_locations = {}

---------------------------------------------------------------------------
\* Review workflow properties, continued

\* C11: a review action on a registration id that does not exist is answered
\* 404 in the handler's first step: no transaction is opened, no ReviewEvent
\* is inserted and no registration is modified.
C11_UnknownRegistrationNotFound ==
    [][\A r \in (1..MaxRegs) \ DOMAIN registrations :
          \A p \in Procs, action \in ReviewActions, b \in PayloadInputs, who \in ReviewerInputs :
              submit_review_action(p, r, action, b.notes, b.rejection_reason,
                                   who.reviewer_id, who.reviewer_name)
                  => /\ resp' = RegistrationNotFound
                     /\ pc'[p] = "idle"
                     /\ UNCHANGED Persisted]_vars

\* C11 witness: the 404 has been sent while no registration exists.
C11_Witness ==
    /\ resp = RegistrationNotFound
    /\ registrations = <<>>

\* C12: the history of a registration lists its review events oldest first.
C12_HistoryOldestFirst ==
    \A r \in DOMAIN registrations :
        LET history == list_review_events(r) IN
        \A i, j \in 1..Len(history) :
            i < j => history[i].created_at <= history[j].created_at

\* C13: a recorded ReviewEvent is never modified or removed: every event of
\* a state is an event of the next state, with the same fields.
C13_EventsImmutable ==
    [][\A e \in review_events : e \in review_events']_vars

\* C13 witness: an event recorded first is still there after a second review
\* action on the same registration has been committed.
C13_Witness ==
    \E e1, e2 \in review_events :
        /\ e1.id = 1 /\ e2.id = 2
        /\ e1.registration_id = e2.registration_id

\* C14: every registration row that appears is Pending and has no review events.
C14_NewRegistrationsArePending ==
    [][\A r \in DOMAIN registrations' \ DOMAIN registrations :
          /\ registrations'[r].status = "Pending"
          /\ \A e \in review_events' : e.registration_id # r]_vars

---------------------------------------------------------------------------
\* Location properties, continued

\* C15: a delete of the only location of a registration is answered 400 "At
\* least one location is required" and a delete of an id that is not a
\* location of the registration is answered 404; neither deletes or changes
\* any location.
C15_DeleteRefusals ==
    [][\A p \in Procs, r \in DOMAIN registrations, l \in 1..MaxLocs :
          delete_location_for_registration(p, r, l)
              => /\ LocationsOf(r) = {l}
                    => /\ resp' = LastLocationRequired
                       /\ pc'[p] = "idle"
                       /\ locations' = locations /\ tx' = tx
                 /\ l \notin LocationsOf(r)
                    => /\ resp' = LocationNotFound
                       /\ pc'[p] = "idle"
                       /\ locations' = locations /\ tx' = tx]_vars

\* C15 witness: the delete of the only location, which is primary, has been refused.
C15_Witness ==
    /\ resp = LastLocationRequired
    /\ \E r \in DOMAIN registrations :
          /\ Cardinality(LocationsOf(r)) = 1
          /\ PrimariesOf(r) = LocationsOf(r)

\* The registration a delete request is about
DeleteRegistrationOf(q) ==
    IF "registration_id" \in DOMAIN q THEN q.registration_id ELSE q.location.registration_id

\* The earliest created of a set of rows of a locations table
EarliestCreated(ids, table) ==
    {l \in ids : \A m \in ids : table[l].created_at <= table[m].created_at}

\* C16: when a delete request that deleted the primary location completes
\* with 200 and locations remain, exactly one of them is primary and it is
\* the earliest created; the DELETE of a non-primary location leaves every
\* remaining row as it was.
C16_DeletePromotesEarliest ==
    [][\A p \in Procs :
          /\ (/\ req[p].op = "delete_location"
              /\ pc[p] \in {"dl_promote", "ul_commit"}
              /\ pc'[p] = "idle"
              /\ resp' = Ok200)
                => LET r == DeleteRegistrationOf(req[p])
                       remaining == {l \in DOMAIN locations' : locations'[l].registration_id = r}
                   IN  remaining # {} =>
                          {l \in remaining : locations'[l].is_primary}
                              = EarliestCreated(remaining, locations')
          /\ (/\ pc[p] = "dl_delete"
              /\ ~req[p].deleting_primary
              /\ pc'[p] = "idle")
                => \A l \in DOMAIN locations' : locations'[l] = locations[l]]_vars

---------------------------------------------------------------------------
\* Primary flag properties

PrimaryUnitsOf(c) ==
    {k \in DOMAIN business_units :
        business_units[k].company_id = c /\ business_units[k].is_primary}

\* C17: when a set-primary transaction commits (update_location with
\* is_primary = true, or set_primary_unit), concurrent set-primary
\* transactions on the same parent included, the parent has exactly one
\* primary child in the committed state.
C17_SetPrimaryLeavesOnePrimary ==
    [][\A p \in Procs :
          /\ update_location_commit(p)
                => \A r \in DOMAIN registrations' :
                      Cardinality({l \in DOMAIN locations' :
                                      /\ locations'[l].registration_id = r
                                      /\ locations'[l].is_primary}) = 1
          /\ set_primary_unit_commit(p)
                => Cardinality({k \in DOMAIN business_units' :
                                   /\ business_units'[k].company_id = req[p].company_id
                                   /\ business_units'[k].is_primary}) = 1]_vars

\* C17 witness: two set_primary_unit requests on different units of one
\* company have both committed, one of them after waiting for the other's locks.
C17_Witness ==
    /\ pc["w1"] = "sp_fetch"
    /\ pc["w2"] = "sp_fetch"
    /\ req["w1"].unit_id # req["w2"].unit_id
    /\ req["w1"].company_id = req["w2"].company_id
    /\ \E p \in Procs : "snapshot" \in DOMAIN req[p]
    /\ Cardinality(PrimaryUnitsOf(req["w1"].company_id)) = 1

\* C18: in every committed state each company has at most one primary
\* business unit.
C18_AtMostOnePrimaryUnit ==
    \A c \in Companies : Cardinality(PrimaryUnitsOf(c)) <= 1

---------------------------------------------------------------------------
\* Promotion properties, continued

\* The four conditions under which a promotion payload is refused
ViolatesPromotionRules(b) ==
    \/ b.ends_at <= b.starts_at
    \/ b.discount_percent # None /\ b.promotion_type # "Discount"
    \/ b.discount_percent # None
          /\ (Unwrap(b.discount_percent) < 0 \/ Unwrap(b.discount_percent) > 100)
    \/ b.promotion_type = "Contest" /\ b.prize = None

\* What a refused request leaves behind: an answer 400 and nothing written
RefusedBeforeAnyWrite(p) ==
    /\ resp'.code = 400
    /\ pc'[p] = "idle"
    /\ UNCHANGED <<Persisted, seq>>

\* The payloads of the model that break one of the four conditions
RefusedCreateBodies == {b \in PromotionBodies("t1") : ViolatesPromotionRules(b)}
RefusedUpdateBodies == {b \in PromotionBodies("t2") : ViolatesPromotionRules(b)}

\* A payload that breaks none of the four conditions passes validate_business_rules
OtherBodiesPass ==
    \A b \in PromotionBodies("t1") \cup PromotionBodies("t2") :
        ~ViolatesPromotionRules(b) => validate_business_rules(b)

\* C19: a create or update of a promotion whose payload has ends_at <=
\* starts_at, a discount on a type other than Discount, a discount outside
\* 0..100 or a Contest without prize is answered 400 and writes nothing (no
\* step of a handler that is not such a refusal is the handling of such a
\* payload); a payload with none of these passes validate_business_rules.
C19_PromotionRulesEnforced ==
    [][/\ OtherBodiesPass
       /\ \A p \in Procs :
             (pc[p] = "idle" /\ ~RefusedBeforeAnyWrite(p))
                => \A r \in DOMAIN registrations :
                      /\ \A b \in RefusedCreateBodies, now \in Clock :
                            ~create_promotion_for_registration(p, r, b, now)
                      /\ \A b \in RefusedUpdateBodies, k \in 1..MaxPromos :
                            ~update_promotion_for_registration(p, r, k, b)]_vars

\* C19 witness: a payload was refused while a promotion and its association
\* were stored, and they are still there.
C19_Witness ==
    /\ resp = PromotionRulesViolated
    /\ promotions # <<>>
    /\ promotion_locations # {}

\* C20: when an update of a promotion commits, the promotion's associations
\* are exactly the supplied location ids, all of them locations of the
\* promotion's registration, when the scope is Location, and none when it is
\* Business; the committed associations change only in the step of a commit,
\* so no state with the old ones removed and the new ones missing is seen.
C20_UpdateReplacesAssociations ==
    [][/\ \A p \in Procs :
             update_promotion_commit(p)
                => LET row == req[p].promotion
                       after == {j[2] : j \in {i \in promotion_locations' : i[1] = row.id}}
                   IN  /\ after = IF row.scope = "Location"
                                  THEN Range(req[p].location_ids) ELSE {}
                       /\ \A l \in after :
                             /\ l \in DOMAIN locations'
                             /\ locations'[l].registration_id = row.registration_id
       /\ promotion_locations' # promotion_locations
             => \E p \in Procs : create_promotion_commit(p) \/ update_promotion_commit(p)]_vars

\* C20 witness: an update has committed and the promotion, now titled t2 and
\* Location-scoped, is associated with location 1 only.
C20_Witness ==
    /\ resp = Ok200
    /\ 1 \in DOMAIN promotions
    /\ promotions[1].title = "t2"
    /\ promotions[1].scope = "Location"
    /\ promotion_locations = {<<1, 1>>}

\* C21: every association whose location exists links a promotion to a
\* location of the promotion's own registration, whatever promotion creates
\* and updates and location creates, updates and deletes have run.
C21_AssociationsWithinRegistration ==
    \A j \in promotion_locations :
        (j[1] \in DOMAIN promotions /\ j[2] \in DOMAIN locations)
            => locations[j[2]].registration_id = promotions[j[1]].registration_id

\* C21 witness: registration 2 has got a location after the start, and the
\* promotion of registration 1 is associated with a location of registration 1
\* while a request naming location 3 has just been refused.
C21_Witness ==
    /\ 3 \in DOMAIN locations
    /\ locations[3].registration_id = 2
    /\ 1 \in DOMAIN promotions
    /\ promotions[1].registration_id = 1
    /\ <<1, 1>> \in promotion_locations
    /\ resp \in {LocationsNotOfRegistration, PromotionNotFound}

\* The lists of at most MaxLocs location ids
IdLists == UNION {[1..n -> 1..MaxLocs] : n \in 0..MaxLocs}

FirstIndex(ids, x) == CHOOSE i \in 1..Len(ids) : ids[i] = x /\ \A j \in 1..(i - 1) : ids[j] # x

\* dedupe_uuids keeps each id once, in the order of the first occurrences,
\* and applied twice gives what it gives applied once
DedupeLaws ==
    \A ids \in IdLists :
        LET out == dedupe_uuids(ids) IN
        /\ Range(out) = Range(ids)
        /\ \A i, j \in 1..Len(out) : i < j => FirstIndex(ids, out[i]) < FirstIndex(ids, out[j])
        /\ dedupe_uuids(out) = out

\* C22: location_ids are deduplicated before the count check and the
\* inserts: the sync step of a create or update whose list names only
\* locations of the registration, repeated or not, succeeds and leaves one
\* association per distinct id, and the create commits exactly these;
\* dedupe_uuids keeps first occurrences in order and is idempotent.
C22_DuplicateIdsAccepted ==
    [][/\ DedupeLaws
       /\ \A p \in Procs :
             /\ (/\ create_promotion_sync(p) \/ update_promotion_sync(p)
                 /\ Range(req[p].location_ids) # {}
                 /\ Range(req[p].location_ids) \subseteq LocationsOf(req[p].promotion.registration_id))
                   => /\ pc'[p] \in {"cp_commit", "up_commit"}
                      /\ tx'[p].join_add =
                            {<<req[p].promotion.id, l>> : l \in Range(req[p].location_ids)}
             /\ (create_promotion_commit(p) /\ req[p].promotion.scope = "Location")
                   => {j \in promotion_locations' : j[1] = req[p].promotion.id}
                         = {<<req[p].promotion.id, l>> : l \in Range(req[p].location_ids)}]_vars

\* C22 witness: a create naming location 1 twice has passed the count check
\* and holds one association.
C22_Witness ==
    \E p \in Procs :
        /\ pc[p] = "cp_commit"
        /\ req[p].location_ids = <<1, 1>>
        /\ tx[p].join_add = {<<req[p].promotion.id, 1>>}

UpdateStatusBodies == StatusBodies("t2")

---------------------------------------------------------------------------
\* C24: a committed review action gives reviewer_notes, reviewer_id and
\* reviewer_name the value it supplies and leaves each of them as it was when
\* it supplies none; the business profile fields of the registration (and its
\* id and owner) are the same before and after every step of a review action.
C24_ReviewFrame ==
    [][\A p \in Procs :
          /\ record_review_event_commit(p) =>
                LET r == req[p].registration_id
                    q == req[p]
                    old == registrations[r]
                    new == registrations'[r]
                IN /\ r \in DOMAIN registrations
                   /\ new.reviewer_notes = IF q.notes = None THEN old.reviewer_notes ELSE q.notes
                   /\ new.reviewer_id = IF q.reviewer_id = None THEN old.reviewer_id ELSE q.reviewer_id
                   /\ new.reviewer_name = IF q.reviewer_name = None THEN old.reviewer_name ELSE q.reviewer_name
          /\ (pc[p] \in {"rr_write", "rr_commit"} \/ pc'[p] = "rr_write") =>
                \A r \in DOMAIN registrations :
                    /\ r \in DOMAIN registrations'
                    /\ registrations'[r].profile = registrations[r].profile
                    /\ registrations'[r].user_id = registrations[r].user_id
                    /\ registrations'[r].id = registrations[r].id]_vars

\* Both review actions of the registration are applied, the later one brought
\* no notes, and the notes of the earlier one are still on the row
C24_Witness ==
    /\ resp = Ok200
    /\ 1 \in DOMAIN registrations
    /\ registrations[1].applied = {1, 2}
    /\ registrations[1].reviewer_notes = Some("n1")
    /\ \E e \in review_events : e.id = 2 /\ e.notes = None
    /\ \E e \in review_events : e.id = 1 /\ e.notes = Some("n1")

---------------------------------------------------------------------------
\* The location ids of the request in hand are not all locations of the
\* promotion's registration
LocationMismatch(p) ==
    LET ids == dedupe_uuids(req[p].location_ids) IN
    /\ ids # <<>>
    /\ ~LocationsBelong(p, req[p].promotion.registration_id, ids)

\* C25: a promotion create or update whose location ids are not all locations
\* of the registration is answered with 404 NotFound, which tells it apart
\* from a business-rule failure (400).
C25_MismatchIsNotFound ==
    [][\A p \in Procs :
          /\ (pc[p] = "cp_sync" /\ LocationMismatch(p) /\ create_promotion_sync(p))
                => resp'.code = 404 /\ resp'.code # PromotionRulesViolated.code
          /\ (pc[p] = "up_sync" /\ LocationMismatch(p) /\ update_promotion_sync(p))
                => resp'.code = 404 /\ resp'.code # PromotionRulesViolated.code]_vars

---------------------------------------------------------------------------
\* C26: when a Comment and one other review action have both been applied to
\* a registration, in whatever order their steps interleaved, the status of
\* the registration is the one the other action sets.
C26_CommentNeverWritesStaleStatus ==
    \A r \in DOMAIN registrations :
        \A c \in review_events, a \in review_events :
            (/\ c.registration_id = r /\ a.registration_id = r
             /\ c.action = "Comment" /\ a.action # "Comment"
             /\ registrations[r].applied = {c.id, a.id})
                => registrations[r].status = NewStatus(a.action, registrations[r].status)

---------------------------------------------------------------------------
\* C27: in every reachable state a registration whose status is Rejected has
\* a rejection_reason; no review action that follows the Reject clears it
\* while the status stays Rejected.
C27_RejectedHasReason ==
    \A r \in DOMAIN registrations :
        registrations[r].status = "Rejected" => registrations[r].rejection_reason # None

---------------------------------------------------------------------------
\* C28: of two concurrent delete_location requests for the two locations of a
\* registration, at most one removes its location: the DELETE of a location
\* leaves at least one location of the registration in the table.
C28_ConcurrentDeletesLeaveOne ==
    [][\A p \in Procs :
          (/\ pc[p] = "dl_delete"
           /\ req[p].location_id \in DOMAIN locations
           /\ req[p].location_id \notin DOMAIN locations')
              => \E k \in DOMAIN locations' :
                    locations'[k].registration_id = req[p].registration_id]_vars

---------------------------------------------------------------------------
\* C29: create_registration is all-or-nothing. While its statements run
\* nothing of the registration is visible, and every supplied location is
\* inserted before the commit is reached; when a statement fails, neither
\* the registration nor a location inserted before the failure is visible
\* afterwards; the commit makes the registration and all of its inserted
\* locations visible together.
C29_CreateRegistrationAllOrNothing ==
    [][\A p \in Procs :
          (pc[p] \in {"cr_insert_reg", "cr_insert_loc", "cr_commit"} /\ pc'[p] # pc[p]) =>
              LET r == req[p].registration.id IN
              IF pc[p] = "cr_commit" /\ resp' = Created201
              THEN /\ req[p].locations = <<>>
                   /\ r \notin DOMAIN registrations
                   /\ r \in DOMAIN registrations'
                   /\ registrations'[r] = req[p].registration
                   /\ \A l \in DOMAIN tx[p].locs :
                         /\ l \notin DOMAIN locations
                         /\ l \in DOMAIN locations'
                         /\ locations'[l] = tx[p].locs[l]
                         /\ locations'[l].registration_id = r
              ELSE /\ registrations' = registrations
                   /\ locations' = locations
                   /\ r \notin DOMAIN registrations'
                   /\ \A l \in DOMAIN locations' : locations'[l].registration_id # r
                   /\ IF pc'[p] = "idle"
                      THEN resp' = FailedToCreateRegistration /\ tx'[p] = NoTx
                      ELSE /\ r \in DOMAIN tx'[p].regs
                           /\ pc[p] = "cr_insert_loc" =>
                                 /\ Head(req[p].locations).id \in DOMAIN tx'[p].locs
                                 /\ DOMAIN tx[p].locs \subseteq DOMAIN tx'[p].locs
                                 /\ req'[p].locations = Tail(req[p].locations)
                           /\ pc'[p] = "cr_commit" => req'[p].locations = <<>>]_vars

\* The registration and the first of its two locations are inserted, the
\* second is still to come, and nothing of them is visible
C29_Witness ==
    \E p \in Procs :
        /\ pc[p] = "cr_insert_loc"
        /\ DOMAIN tx[p].locs # {}
        /\ req[p].locations # <<>>
        /\ req[p].registration.id \in DOMAIN tx[p].regs
        /\ req[p].registration.id \notin DOMAIN registrations
        /\ \A l \in DOMAIN tx[p].locs : l \notin DOMAIN locations

---------------------------------------------------------------------------
\* C30: the commit of create_promotion or update_promotion never leaves a
\* Location-scoped promotion without an association, whatever list of
\* location ids the persistence layer was called with, the empty one included.
C30_LocationScopedHasAssociation ==
    [][\A p \in Procs :
          (/\ create_promotion_commit(p) \/ update_promotion_commit(p)
           /\ req[p].promotion.scope = "Location")
              => \E j \in promotion_locations' : j[1] = req[p].promotion.id]_vars

====
